---- MODULE Spec2Model ----
(***************************************************************************)
(* Model of astro_source: the lazy Container (astro_source/container.py),  *)
(* its Source specialisation and SubSource (source.py), the loader         *)
(* dispatch helpers (astro_source/loaders.py) and the type registry        *)
(* (register.py).                                                          *)
(*                                                                         *)
(* Specifications:                                                         *)
(*  - Spec: one Source, built by a construction that returns, and the      *)
(*    operations on it, each run to completion;                            *)
(*  - SpecSource: every construction, those that raise included, and the   *)
(*    properties read from INFO;                                           *)
(*  - SpecRegistry: registrations and resolutions of type tags;            *)
(*  - SpecSub: SubSource.to_dict followed by SubSource.from_dict;          *)
(*  - SpecThreads: two threads evaluating source[section] on one Source.   *)
(*                                                                         *)
(* Representation:                                                         *)
(*  - an option name is the tuple of its '_'-separated parts, so that      *)
(*    key.split('_'), key + '_type', startswith and endswith are computed  *)
(*    on the parts as Python computes them on the string;                  *)
(*  - a config is [defaults, order, sect]: the default section's options,  *)
(*    the section names in insertion order, and each section's own options;*)
(*  - Python's None is the string "None"; a typed Python value is the pair *)
(*    <<kind, text>>;                                                      *)
(*  - an artifact returned by a loader is the number of the loader         *)
(*    invocation that produced it, so two invocations never return the     *)
(*    same artifact; 0 stands for "the loader raised".                     *)
(***************************************************************************)
EXTENDS Integers, Sequences, FiniteSets, TLC

VARIABLES name, config_file, config, _data, subsources, registry,
          nloads, nupdates, ret, threads

vars ==
  <<name, config_file, config, _data, subsources, registry,
    nloads, nupdates, ret, threads>>

---------------------------------------------------------------------------
(* Bounds of the model. *)

(* how many operations of one run may change the state (load an artifact
   or change the configuration) *)
MaxOps ==
  2

(* how many nested calls the interpreter allows before it raises
   RecursionError *)
RecursionLimit ==
  3

---------------------------------------------------------------------------
(* Values. *)

None ==
  "None"

Unset ==
  "<no attribute>"

EmptyMap ==
  [k \in {} |-> None]

(* Option names, as tuples of parts. *)
K_name ==
  <<"name">>

K_type ==
  <<"type">>

K_file ==
  <<"file">>

K_ra ==
  <<"ra">>

K_dec ==
  <<"dec">>

K_frame ==
  <<"frame">>

K_radius ==
  <<"radius">>

K_loader_x ==
  <<"loader", "x">>

K_loader_x_type ==
  <<"loader", "x", "type">>

K_loader_dtype ==
  <<"loader", "dtype">>

(* Error outcomes: the Python exception and the line that raises it. *)
OK ==
  "ok"

E_MissingFile ==
  "ValueError: Could not load data"

E_KeyError ==
  "KeyError"

E_Coercion ==
  "ValueError: coercion"

E_UnknownType ==
  "TypeError: Type does not exist"

E_Loader ==
  "loader raised"

E_NameError ==
  "NameError: val"

E_NoLogger ==
  "AttributeError: logger"

E_NoConfigFile ==
  "AttributeError: config_file"

E_NoConfigPath ==
  "ValueError: Source does not have config file"

E_RecursionError ==
  "RecursionError: maximum recursion depth exceeded"

---------------------------------------------------------------------------
(* String functions, on the strings the model uses. *)

(* str.lower() *)
Lower(s) ==
  CASE s = "Fits_File" -> "fits_file"
    [] s = "FITS_FILE" -> "fits_file"
    [] s = "Image" -> "image"
    [] s = "Spectral_Cube" -> "spectral_cube"
    [] OTHER -> s

(* s.startswith(p), for one '_'-free part s and a '_'-free prefix p *)
StartsWithStr(s, p) ==
  \/ s = p
  \/ <<s, p>> \in {<<"loader", "load">>}

(* s.endswith('type'), for one '_'-free part s *)
EndsWithTypeStr(s) ==
  s \in {"type", "dtype"}

(* key.startswith(base): base holds no '_', so only the first part matters *)
KeyStartsWith(key, base) ==
  StartsWithStr(key[1], base)

(* key.endswith('type'): 'type' holds no '_', so only the last part matters *)
KeyEndsWithType(key) ==
  EndsWithTypeStr(key[Len(key)])

(* Path(p).expanduser(), as a string *)
ExpandUser(p) ==
  IF p = "~/b.fits" THEN "/home/user/b.fits" ELSE p

(* f'{val}' / str(val) of a typed Python value <<kind, text>> *)
Str(val) ==
  val[2]

---------------------------------------------------------------------------
(* The configuration parser, as the code uses it. *)

(* `section in self.config`: the default section always is *)
HasSection(cfg, section) ==
  section = "DEFAULT" \/ section \in DOMAIN cfg.sect

(* self.config[section]: the section's options over the inherited defaults *)
Proxy(cfg, section) ==
  IF section = "DEFAULT" THEN cfg.defaults
  ELSE cfg.sect[section] @@ cfg.defaults

(* self.config.get(section, option, fallback=None) *)
GetFallback(cfg, section, option) ==
  IF ~HasSection(cfg, section) THEN None
  ELSE IF option \notin DOMAIN Proxy(cfg, section) THEN None
  ELSE Proxy(cfg, section)[option]

(* mutant of GetPath: a path is made up when the option is missing *)
M_GetPath_Default(cfg, section, option) ==
  IF GetFallback(cfg, section, option) = None THEN "data.fits"
  ELSE ExpandUser(GetFallback(cfg, section, option))

(* self.config.getpath(section, option, fallback=None): the fallback when
   the section or the option is missing, else the value as a user-expanded
   path *)
GetPath(cfg, section, option) ==
  IF GetFallback(cfg, section, option) = None THEN None
  ELSE ExpandUser(GetFallback(cfg, section, option))

(* self.config[section][key] = value *)
SetOption(cfg, section, key, value) ==
  IF section = "DEFAULT"
  THEN [cfg EXCEPT !.defaults = (key :> value) @@ cfg.defaults]
  ELSE [cfg EXCEPT !.sect[section] = (key :> value) @@ cfg.sect[section]]

(* self.config[section] = options: a present section is cleared and refilled
   and keeps its place, an absent one is appended *)
SetSection(cfg, section, options) ==
  IF section = "DEFAULT" THEN [cfg EXCEPT !.defaults = options]
  ELSE [cfg EXCEPT
          !.order = IF section \in DOMAIN cfg.sect THEN cfg.order
                    ELSE Append(cfg.order, section),
          !.sect = (section :> options) @@ cfg.sect]

(* the typed getters getint / getfloat / getboolean / getquantity accept raw *)
CanConvert(dtype, raw) ==
  CASE dtype = "int" -> raw \in {"5"}
    [] dtype = "float" -> raw \in {"5"}
    [] dtype = "bool" -> raw \in {"true", "false"}
    [] dtype = "quantity" -> raw \in {"5"}
    [] OTHER -> TRUE

---------------------------------------------------------------------------
(* astro_source/loaders.py *)

(* the value kwargs_from_config assigns for an option with sibling type dtype *)
KwValue(dtype, raw) ==
  IF dtype \in {"int", "float", "bool", "quantity"} THEN <<dtype, raw>>
  ELSE <<"str", raw>>

(* the options kwargs_from_config reads *)
KwKeys(proxy, base) ==
  {key \in DOMAIN proxy : KeyStartsWith(key, base) /\ ~KeyEndsWithType(key)}

(* dtype = config[key + '_type'] if present, else None *)
KwType(proxy, key) ==
  IF Append(key, "type") \in DOMAIN proxy THEN proxy[Append(key, "type")]
  ELSE None

(* newkey = '_'.join(key.split('_')[1:]) *)
NewKey(key) ==
  Tail(key)

(* kwargs_from_config(config, base): [err, kw]; a typed getter that rejects
   the raw value raises out of the loop.  The option names of the model have
   distinct new keys, so the order of the loop does not show in kw *)
kwargs_from_config(proxy, base) ==
  IF \E key \in KwKeys(proxy, base) :
       ~CanConvert(KwType(proxy, key), proxy[key])
  THEN [err |-> E_Coercion, kw |-> EmptyMap]
  ELSE [err |-> OK,
        kw |-> [nk \in {NewKey(key) : key \in KwKeys(proxy, base)} |->
                  LET opt == CHOOSE k \in KwKeys(proxy, base) : NewKey(k) = nk
                  IN KwValue(KwType(proxy, opt), proxy[opt])]]

(* mutant of load_data_by_type: an unknown type falls back to fits.open *)
M_load_data_by_type_Default(file_name, dtype, loaders, kwargs, returns, id) ==
  LET loader == IF dtype \in DOMAIN loaders THEN loaders[dtype]
                ELSE "fits.open"
  IN [err |-> IF returns THEN OK ELSE E_Loader,
      calls |-> <<[loader |-> loader, path |-> file_name, kwargs |-> kwargs,
                   result |-> IF returns THEN id ELSE 0]>>,
      value |-> IF returns THEN id ELSE 0]

(* load_data_by_type(file_name, dtype, loaders, **kwargs): [err, calls, value];
   returns says whether the loader returns (the artifact id) or raises *)
load_data_by_type(file_name, dtype, loaders, kwargs, returns, id) ==
  IF dtype \notin DOMAIN loaders
  THEN [err |-> E_UnknownType, calls |-> <<>>, value |-> 0]
  ELSE [err |-> IF returns THEN OK ELSE E_Loader,
        calls |-> <<[loader |-> loaders[dtype], path |-> file_name,
                     kwargs |-> kwargs,
                     result |-> IF returns THEN id ELSE 0]>>,
        value |-> IF returns THEN id ELSE 0]

---------------------------------------------------------------------------
(* astro_source/container.py *)

(* for key, val in kwargs.items(): self.config[section][key] = str(val) *)
RECURSIVE SetOptions(_, _, _, _)
SetOptions(cfg, section, kwargs, keys) ==
  IF keys = {} THEN cfg
  ELSE LET key == CHOOSE k \in keys : TRUE
       IN SetOptions(SetOption(cfg, section, key, Str(kwargs[key])),
                     section, kwargs, keys \ {key})

(* Container.update_config(section, **kwargs): [err, config].  For an absent
   section the dict comprehension names `val`, which its loop never binds
   (it binds `vals`), so it raises as soon as kwargs has one item *)
update_config(cfg, section, kwargs) ==
  IF ~HasSection(cfg, section)
  THEN IF DOMAIN kwargs # {}
       THEN [err |-> E_NameError, config |-> cfg]
       ELSE [err |-> OK, config |-> SetSection(cfg, section, EmptyMap)]
  ELSE [err |-> OK,
        config |-> SetOptions(cfg, section, kwargs, DOMAIN kwargs)]

(* Container.load_data(section, file_name): [err, config] *)
Container_load_data(cfg, section, file_name) ==
  IF file_name # None
  THEN update_config(cfg, section, K_file :> <<"str", file_name>>)
  ELSE [err |-> OK, config |-> cfg]

(* mutant of NotLoaded: every get loads again *)
M_NotLoaded_Always(cache, section) ==
  TRUE

(* `section not in self._data` *)
NotLoaded(cache, section) ==
  section \notin DOMAIN cache

(* Container.__setitem__(section, value), entered at nesting depth:
   [err, data].  Its body is the item assignment self[section] = value, which
   is a call of __setitem__ itself with the same arguments; nothing ever
   assigns to self._data *)
RECURSIVE Container_setitem(_, _, _, _)
Container_setitem(data, section, value, depth) ==
  IF depth > RecursionLimit
  THEN [err |-> E_RecursionError, data |-> data]
  ELSE Container_setitem(data, section, value, depth + 1)

(* Container.write(filename): [err, path] *)
Container_write(cfgfile, filename) ==
  IF filename # None THEN [err |-> OK, path |-> filename]
  ELSE IF cfgfile = Unset THEN [err |-> E_NoConfigFile, path |-> None]
  ELSE IF cfgfile # None THEN [err |-> OK, path |-> cfgfile]
  ELSE [err |-> E_NoConfigPath, path |-> None]

(* Path(f'{name}.cfg') *)
CfgPath(nm) ==
  CASE nm = None -> "None.cfg"
    [] nm = "src" -> "src.cfg"
    [] nm = "G10" -> "G10.cfg"
    [] nm = "M1" -> "M1.cfg"
    [] OTHER -> "other.cfg"

(* ConfigParserAdv(default_section=default_section) *)
EmptyConfig ==
  [defaults |-> EmptyMap, order |-> <<>>, sect |-> EmptyMap]

(* Container.__init__(name, config_file, config): [name, config_file, config].
   mode says which of config_file / config is given (never both); given is
   the parser passed in, or the one read from the file when the file exists *)
Container_init(nm, mode, path, isFile, given) ==
  CASE mode = "file" ->
         LET cfg == IF isFile THEN given ELSE EmptyConfig
         IN IF nm = None /\ K_name \in DOMAIN cfg.defaults
            THEN [name |-> cfg.defaults[K_name],
                  config_file |-> ExpandUser(path), config |-> cfg]
            ELSE IF nm # None
            THEN [name |-> nm, config_file |-> ExpandUser(path),
                  config |-> SetOption(cfg, "DEFAULT", K_name, nm)]
            ELSE [name |-> nm, config_file |-> ExpandUser(path),
                  config |-> cfg]
    [] mode = "config" ->
         IF nm = None /\ K_name \in DOMAIN given.defaults
         THEN [name |-> given.defaults[K_name],
               config_file |-> CfgPath(nm), config |-> given]
         ELSE IF nm # None
         THEN [name |-> nm, config_file |-> CfgPath(nm),
               config |-> SetOption(given, "DEFAULT", K_name, nm)]
         ELSE [name |-> nm, config_file |-> Unset, config |-> given]
    [] OTHER ->
         [name |-> nm,
          config_file |-> IF nm = None THEN None ELSE CfgPath(nm),
          config |-> EmptyConfig]

---------------------------------------------------------------------------
(* source.py: SubSource *)

K_position ==
  <<"position">>

K_size ==
  <<"size">>

K_note ==
  <<"note">>

(* cls(name, ...info) with a 'name' key in info: the argument is given twice *)
E_TypeError ==
  "TypeError: multiple values for argument 'name'"

(* u.Quantity / SkyCoord reject the string *)
E_Parse ==
  "ValueError: cannot parse"

(* f'{q.value} {q.unit}' of the quantity a string parses to (the value is a
   float), None when u.Quantity rejects the string *)
QuantityText(raw) ==
  CASE raw \in {"5 arcsec", "5.0 arcsec"} -> "5.0 arcsec"
    [] raw \in {"0.1 pc"} -> "0.1 pc"
    [] OTHER -> None

(* u.Quantity(val): the quantity, named by its value and unit *)
Quantity(raw) ==
  <<"Quantity", QuantityText(raw)>>

(* the 'hmsdms' text of the right ascension a string parses to *)
HmsText(raw) ==
  CASE raw \in {"05h34m31.9s", "5h34m31.9s"} -> "05h34m31.9s"
    [] OTHER -> None

(* the 'hmsdms' text of the declination a string parses to *)
DmsText(raw) ==
  CASE raw \in {"+22d00m52s", "22d00m52s"} -> "+22d00m52s"
    [] OTHER -> None

(* frame.name of the frame a string names *)
FrameName(raw) ==
  CASE raw \in {"icrs", "ICRS"} -> "icrs"
    [] raw \in {"fk5"} -> "fk5"
    [] OTHER -> None

(* SkyCoord of the position mapping: the coordinate, named by its angles and
   frame; an entry None when SkyCoord rejects that string *)
SkyCoord(position) ==
  <<"SkyCoord", HmsText(position[K_ra]), DmsText(position[K_dec]),
    FrameName(position[K_frame])>>

(* SubSource.from_dict(data, name): [err, name, info].  A missing name is
   popped from data; every other key but type, ra, dec, frame goes to info,
   'name' included, and cls(name, ...info) then gets name twice *)
SubSource_from_dict(data, nm) ==
  LET popped == nm = None /\ K_name \in DOMAIN data
      newname == IF popped THEN data[K_name] ELSE nm
      items == IF popped THEN [k \in DOMAIN data \ {K_name} |-> data[k]]
               ELSE data
      position ==
        [k \in (DOMAIN items \cap {K_ra, K_dec, K_frame}) \cup {K_frame} |->
           IF k \in DOMAIN items THEN items[k] ELSE "icrs"]
      plain == DOMAIN items \ {K_type, K_ra, K_dec, K_frame}
      info == [k \in plain |->
                 IF k = K_radius THEN Quantity(items[k])
                 ELSE <<"str", items[k]>>]
      located == K_ra \in DOMAIN position /\ K_dec \in DOMAIN position
      full == IF located THEN (K_position :> SkyCoord(position)) @@ info
              ELSE info
  IN IF K_radius \in plain /\ QuantityText(items[K_radius]) = None
     THEN [err |-> E_Parse, name |-> newname, info |-> EmptyMap]
     ELSE IF located /\ \E i \in 2..4 : SkyCoord(position)[i] = None
     THEN [err |-> E_Parse, name |-> newname, info |-> EmptyMap]
     ELSE IF K_name \in DOMAIN full
     THEN [err |-> E_TypeError, name |-> newname, info |-> EmptyMap]
     ELSE [err |-> OK, name |-> newname, info |-> full]

(* SubSource.from_config_proxy(parser, name): the proxy's own or inherited
   'name' is preferred to the one given *)
SubSource_from_config_proxy(proxy, nm) ==
  SubSource_from_dict(proxy,
                      IF K_name \in DOMAIN proxy THEN proxy[K_name] ELSE nm)

(* val.to_string('hmsdms').split() of a SkyCoord, and val.frame.name *)
SkyCoordStrings(val) ==
  [ra |-> val[2], dec |-> val[3], frame |-> val[4]]

(* SubSource.to_dict(): a quantity becomes '<value> <unit>', a position its
   ra, dec and frame strings, any other value is kept *)
SubSource_to_dict(sub) ==
  LET plain == DOMAIN sub.info \ {K_position}
      props == [k \in plain \cup {K_name, K_type} |->
                  IF k \in plain THEN sub.info[k][2]
                  ELSE IF k = K_name THEN sub.name ELSE "subsource"]
  IN IF K_position \in DOMAIN sub.info
     THEN (K_ra :> SkyCoordStrings(sub.info[K_position]).ra)
          @@ (K_dec :> SkyCoordStrings(sub.info[K_position]).dec)
          @@ (K_frame :> SkyCoordStrings(sub.info[K_position]).frame)
          @@ props
     ELSE props

---------------------------------------------------------------------------
(* source.py: Source *)

(* the sections config.items() yields: the default section, then the rest *)
AllSections(cfg) ==
  {"DEFAULT"} \cup DOMAIN cfg.sect

(* Source.load_subsources(), from item i of config.items() on:
   [err, subsources]; an exception of from_config_proxy ends the loop *)
RECURSIVE load_subsources(_, _, _)
load_subsources(cfg, subs, i) ==
  LET items == <<"DEFAULT">> \o cfg.order
  IN IF i > Len(items) THEN [err |-> OK, subsources |-> subs]
     ELSE LET section == items[i]
              conf == Proxy(cfg, section)
          IN IF ~(K_type \in DOMAIN conf /\ conf[K_type] = "subsource")
             THEN load_subsources(cfg, subs, i + 1)
             ELSE LET sub == SubSource_from_config_proxy(conf, section)
                  IN IF sub.err # OK
                     THEN [err |-> sub.err, subsources |-> subs]
                     ELSE load_subsources(
                            cfg,
                            (section :> [name |-> sub.name, info |-> sub.info])
                              @@ subs,
                            i + 1)

(* Source.__init__(name, config_file, config):
   [err, name, config_file, config, subsources] *)
Source_init(nm, mode, path, isFile, given) ==
  LET c == Container_init(nm, mode, path, isFile, given)
      loaded == load_subsources(c.config, EmptyMap, 1)
  IN [err |-> loaded.err, name |-> c.name, config_file |-> c.config_file,
      config |-> c.config, subsources |-> loaded.subsources]

(* Source.from_values(name, ...kwargs): the values go to INFO as strings, the
   name too, and the Source is built from that parser alone *)
from_values(nm, kwargs) ==
  Source_init(None, "config", None, FALSE,
              [defaults |-> EmptyMap, order |-> <<"INFO">>,
               sect |-> ("INFO" :> ([k \in DOMAIN kwargs |-> Str(kwargs[k])]
                                     @@ (K_name :> nm)))])

K_distance ==
  <<"distance">>

K_luminosity ==
  <<"luminosity">>

K_vlsr ==
  <<"vlsr">>

(* Source.get_quantity(opt): [err, value] of
   self.config.getquantity('INFO', opt, fallback=None) *)
get_quantity(cfg, opt) ==
  IF GetFallback(cfg, "INFO", opt) = None
  THEN [err |-> OK, value |-> None]
  ELSE IF QuantityText(GetFallback(cfg, "INFO", opt)) = None
  THEN [err |-> E_Coercion, value |-> None]
  ELSE [err |-> OK, value |-> Quantity(GetFallback(cfg, "INFO", opt))]

(* Source.position: [err, value]; ra and dec are read by subscript, the
   frame with the fallback 'icrs' *)
position(cfg) ==
  IF "INFO" \notin DOMAIN cfg.sect
       \/ K_ra \notin DOMAIN Proxy(cfg, "INFO")
       \/ K_dec \notin DOMAIN Proxy(cfg, "INFO")
  THEN [err |-> E_KeyError, value |-> None]
  ELSE LET coord == SkyCoord(
                      (K_ra :> Proxy(cfg, "INFO")[K_ra])
                      @@ (K_dec :> Proxy(cfg, "INFO")[K_dec])
                      @@ (K_frame :>
                            IF GetFallback(cfg, "INFO", K_frame) = None
                            THEN "icrs"
                            ELSE GetFallback(cfg, "INFO", K_frame)))
       IN IF \E i \in 2..4 : coord[i] = None
          THEN [err |-> E_Parse, value |-> None]
          ELSE [err |-> OK, value |-> coord]

(* the properties of Source read from INFO: [err, value] *)
Source_property(cfg, attr) ==
  CASE attr = "position" -> position(cfg)
    [] attr = "ra" ->
         IF position(cfg).err # OK THEN position(cfg)
         ELSE [err |-> OK, value |-> <<"Longitude", position(cfg).value[2]>>]
    [] attr = "dec" ->
         IF position(cfg).err # OK THEN position(cfg)
         ELSE [err |-> OK, value |-> <<"Latitude", position(cfg).value[3]>>]
    [] attr = "distance" -> get_quantity(cfg, K_distance)
    [] attr = "luminosity" -> get_quantity(cfg, K_luminosity)
    [] attr = "vlsr" -> get_quantity(cfg, K_vlsr)

(* mutant of DataFile: the override is ignored *)
M_DataFile_NoOverride(cfg, section, file_name) ==
  GetPath(cfg, section, K_file)

(* data_file of Source.load_data: the override, else the `file` option *)
DataFile(cfg, section, file_name) ==
  IF file_name # None THEN ExpandUser(file_name)
  ELSE GetPath(cfg, section, K_file)

(* mutant of MissingFile: the check is dropped *)
M_MissingFile_Never(data_file) ==
  FALSE

(* `if data_file is None` *)
MissingFile(data_file) ==
  data_file = None

(* self.config[section]['type'] can be read *)
HasType(cfg, section) ==
  HasSection(cfg, section) /\ K_type \in DOMAIN Proxy(cfg, section)

(* mutant of StoreData: the cache keeps the last artifact only *)
M_StoreData_Reset(data, section, value) ==
  section :> value

(* self._data[section] = value *)
StoreData(data, section, value) ==
  (section :> value) @@ data

(* Source.load_data(section, file_name) on m = [config, data, registry,
   nloads, calls, err]; returns says whether the loader returns or raises *)
Source_load_data(m, section, file_name, returns) ==
  LET data_file == DataFile(m.config, section, file_name)
  IN IF MissingFile(data_file) THEN [m EXCEPT !.err = E_MissingFile]
     ELSE IF ~HasType(m.config, section) THEN [m EXCEPT !.err = E_KeyError]
     ELSE
       LET proxy == Proxy(m.config, section)
           dtype == Lower(proxy[K_type])
           kwargs_load == kwargs_from_config(proxy, "loader")
       IN IF kwargs_load.err # OK THEN [m EXCEPT !.err = kwargs_load.err]
          ELSE
            LET r == load_data_by_type(data_file, dtype, m.registry,
                                       kwargs_load.kw, returns, m.nloads + 1)
                called == [m EXCEPT
                             !.nloads = IF r.err = OK THEN @ + 1 ELSE @,
                             !.calls = @ \o [i \in 1..Len(r.calls) |->
                                               [section |-> section,
                                                call |-> r.calls[i]]]]
            IN IF r.err # OK THEN [called EXCEPT !.err = r.err]
               ELSE
                 LET up == Container_load_data(called.config, section,
                                               file_name)
                 IN [called EXCEPT
                       !.data = StoreData(@, section, r.value),
                       !.config = up.config,
                       !.err = up.err]

(* Container.__getitem__(section), up to the return *)
Container_getitem(m, section, returns) ==
  IF NotLoaded(m.data, section)
  THEN Source_load_data(m, section, None, returns)
  ELSE m

(* Container.load_data_from_keys(sections, file_names), from pair i on;
   an exception ends the loop *)
RECURSIVE load_data_from_keys(_, _, _, _, _)
load_data_from_keys(m, sections, file_names, returns, i) ==
  IF i > Len(sections) \/ i > Len(file_names) \/ m.err # OK THEN m
  ELSE load_data_from_keys(
         Source_load_data(m, sections[i], file_names[i], returns[i]),
         sections, file_names, returns, i + 1)

(* Source.load_all_data(), from section i of config.sections() on.  The
   branch that loads first calls self.logger.info: Source and Container
   define `log`, not `logger`, so the call raises before load_data *)
RECURSIVE load_all_data(_, _)
load_all_data(m, i) ==
  IF i > Len(m.config.order) THEN m
  ELSE LET section == m.config.order[i]
       IN IF section = "INFO" \/ K_type \notin DOMAIN Proxy(m.config, section)
          THEN load_all_data(m, i + 1)
          ELSE IF Proxy(m.config, section)[K_type] = "subsource"
          THEN load_all_data(m, i + 1)
          ELSE [m EXCEPT !.err = E_NoLogger]

(* Source.write, first part: subsources whose key is no section are stored *)
RECURSIVE StoreSubsources(_, _, _)
StoreSubsources(cfg, subs, keys) ==
  IF keys = {} THEN cfg
  ELSE LET key == CHOOSE k \in keys : TRUE
       IN StoreSubsources(
            IF ~HasSection(cfg, key)
            THEN SetSection(cfg, key, SubSource_to_dict(subs[key]))
            ELSE cfg,
            subs, keys \ {key})

(* mutant of register_class: the class name is the key as it is written *)
M_register_class_NoLower(loaders, cls) ==
  (cls :> cls) @@ loaders

(* register_class(cls): REGISTERED_CLASSES[cls.__name__.lower()] = cls *)
register_class(loaders, cls) ==
  (Lower(cls) :> cls) @@ loaders

(* REGISTERED_CLASSES as register.py builds it *)
REGISTERED_CLASSES ==
  ("spectral_cube" :> "SpectralCube") @@ ("fits_file" :> "fits.open")

(* ConfigParserAdv.copy_section(section, new_section, ignore_default=True):
   [err, config]; the section's own options become new_section *)
copy_config(cfg, section, new_section) ==
  IF section \notin DOMAIN cfg.sect THEN [err |-> E_KeyError, config |-> cfg]
  ELSE [err |-> OK,
        config |-> SetSection(cfg, new_section, cfg.sect[section])]

---------------------------------------------------------------------------
(* Inputs. *)

(* configurations a Source is built from *)
CfgG10 ==
  [defaults |-> (K_name :> "G10"),
   order |-> <<"INFO", "cube", "new">>,
   sect |-> ("INFO" :> ((K_ra :> "05h34m31.9s") @@ (K_dec :> "+22d00m52s")))
            @@ ("cube" :> ((K_type :> "spectral_cube") @@ (K_file :> "a.fits")
                           @@ (K_loader_x :> "5")
                           @@ (K_loader_x_type :> "int")))
            @@ ("new" :> (K_type :> "fits_file"))]

CfgPlain ==
  [defaults |-> EmptyMap,
   order |-> <<"cube", "bad", "sub1">>,
   sect |-> ("cube" :> ((K_type :> "Fits_File") @@ (K_file :> "~/b.fits")
                       @@ (K_loader_dtype :> "f8")))
            @@ ("bad" :> (K_type :> "nonexistent"))
            @@ ("sub1" :> ((K_type :> "subsource")
                           @@ (K_ra :> "5h34m31.9s")
                           @@ (K_dec :> "+22d00m52s")
                           @@ (K_radius :> "5 arcsec")))]

(* a region with a default name, two subsources and a partial INFO *)
CfgRegion ==
  [defaults |-> (K_name :> "G10"),
   order |-> <<"INFO", "core", "sub1">>,
   sect |-> ("INFO" :> ((K_ra :> "05h34m31.9s") @@ (K_distance :> "0.1 pc")))
            @@ ("core" :> ((K_type :> "subsource")
                           @@ (K_radius :> "5 arcsec")))
            @@ ("sub1" :> ((K_type :> "subsource")
                           @@ (K_ra :> "5h34m31.9s")
                           @@ (K_dec :> "+22d00m52s")))]

InitConfigs ==
  {CfgG10, CfgPlain}

SourceConfigs ==
  {CfgG10, CfgPlain, CfgRegion}

(* the keyword arguments given to Source.from_values *)
ValuesInputs ==
  {EmptyMap,
   (K_ra :> <<"str", "05h34m31.9s">>) @@ (K_dec :> <<"str", "+22d00m52s">>)
     @@ (K_distance :> Quantity("0.1 pc"))}

Properties ==
  {"position", "ra", "dec", "distance", "luminosity", "vlsr"}

Names ==
  {None, "src"}

SectionNames ==
  {"cube", "bad", "new"}

FileNames ==
  {None, "~/b.fits"}

(* keyword arguments given to update_config *)
KwargsInputs ==
  {EmptyMap,
   (K_file :> <<"Path", "~/b.fits">>) @@ (K_type :> <<"str", "Fits_File">>),
   K_loader_x :> <<"str", "abc">>,
   K_loader_x_type :> <<"str", "str">>}

UpdateSections ==
  {"cube", "new"}

CopyInputs ==
  {<<"cube", "new">>, <<"bad", "cube">>}

(* the (sections, file_names) given to load_data_from_keys *)
KeysInputs ==
  {<<<<"cube", "new">>, <<"a.fits", "~/b.fits">>>>,
   <<<<"bad", "cube">>, <<"a.fits">>>>}

ClassNames ==
  {"Fits_File"}

Bases ==
  {"loader", "load"}

WritePaths ==
  {None, "out.cfg"}

(* the objects assigned with container[section] = value: -1 is an object no
   loader returned *)
SetItemInputs ==
  {<<"cube", -1>>}

(* the classes decorated with @register_class, and the tags resolved *)
RegistryClassNames ==
  {"Fits_File", "FITS_FILE", "Image"}

TypeTags ==
  {"fits_file", "image", "nonexistent"}

(* the values a SubSource is given under each info key *)
InfoChoices ==
  (K_position :> {<<"SkyCoord", "05h34m31.9s", "+22d00m52s", "icrs">>,
                  <<"SkyCoord", "05h34m31.9s", "+22d00m52s", "fk5">>})
  @@ (K_radius :> {Quantity("5 arcsec")})
  @@ (K_size :> {Quantity("0.1 pc")})
  @@ (K_note :> {<<"str", "bright">>})

(* SubSource(name, ...info) objects *)
SubSourceInputs ==
  {[name |-> nm, info |-> info] :
     nm \in {"s1", "core"},
     info \in UNION {{f \in [keys -> UNION {InfoChoices[k] : k \in keys}] :
                        \A k \in keys : f[k] \in InfoChoices[k]} :
                     keys \in SUBSET DOMAIN InfoChoices}}

---------------------------------------------------------------------------
(* The state machine. *)

(* the result of the last operation: its arguments, the exception it raised
   (OK if none), the loader invocations it made and the value it returned *)
NoRet ==
  [op |-> "init", section |-> None, file_name |-> None, kwargs |-> EmptyMap,
   sections |-> <<>>, file_names |-> <<>>, base |-> None,
   err |-> OK, calls |-> <<>>, value |-> <<>>]

Machine ==
  [config |-> config, data |-> _data, registry |-> registry,
   nloads |-> nloads, calls |-> <<>>, err |-> OK]

(* the threads that use the Source, none of them in a call *)
Threads ==
  {1, 2}

IdleThreads ==
  [t \in Threads |->
     [pc |-> "idle", section |-> None, alone |-> TRUE, err |-> OK,
      calls |-> <<>>, local |-> 0, value |-> <<>>]]

(* the state a construction c = [err, name, config_file, config, subsources]
   leaves, r being the record of the call *)
Constructed(c, r) ==
  /\ name = c.name
  /\ config_file = c.config_file
  /\ config = c.config
  /\ _data = EmptyMap
  /\ subsources = c.subsources
  /\ registry = REGISTERED_CLASSES
  /\ nloads = 0
  /\ nupdates = 0
  /\ ret = r
  /\ threads = IdleThreads

(* Source(name, config_file, config), for the constructions that return *)
Init ==
  \E nm \in Names, mode \in {"file", "config", "neither"},
     isFile \in BOOLEAN, given \in InitConfigs :
    LET c == Source_init(nm, mode, "in.cfg", isFile, given)
    IN c.err = OK /\ Constructed(c, NoRet)

(* container[section] *)
GetItem(section, returns) ==
  /\ LET m == Container_getitem(Machine, section, returns)
     IN /\ m.nloads + nupdates <= MaxOps
        /\ config' = m.config
        /\ _data' = m.data
        /\ nloads' = m.nloads
        /\ ret' = [NoRet EXCEPT
                     !.op = "get", !.section = section,
                     !.err = m.err, !.calls = m.calls,
                     !.value = IF m.err = OK THEN <<m.data[section]>>
                               ELSE <<>>]
  /\ UNCHANGED <<name, config_file, subsources, registry, nupdates, threads>>

(* source.load_data(section, file_name) *)
LoadData(section, file_name, returns) ==
  /\ LET m == Source_load_data(Machine, section, file_name, returns)
     IN /\ m.nloads + nupdates <= MaxOps
        /\ config' = m.config
        /\ _data' = m.data
        /\ nloads' = m.nloads
        /\ ret' = [NoRet EXCEPT
                     !.op = "load_data", !.section = section,
                     !.file_name = file_name,
                     !.err = m.err, !.calls = m.calls]
  /\ UNCHANGED <<name, config_file, subsources, registry, nupdates, threads>>

(* source.load_data_from_keys(sections, file_names) *)
LoadDataFromKeys(sections, file_names, returns) ==
  /\ LET m == load_data_from_keys(Machine, sections, file_names, returns, 1)
     IN /\ m.nloads + nupdates <= MaxOps
        /\ config' = m.config
        /\ _data' = m.data
        /\ nloads' = m.nloads
        /\ ret' = [NoRet EXCEPT
                     !.op = "load_data_from_keys",
                     !.sections = sections, !.file_names = file_names,
                     !.err = m.err, !.calls = m.calls]
  /\ UNCHANGED <<name, config_file, subsources, registry, nupdates, threads>>

(* source.load_all_data() *)
LoadAllData ==
  /\ LET m == load_all_data(Machine, 1)
     IN /\ m.nloads + nupdates <= MaxOps
        /\ config' = m.config
        /\ _data' = m.data
        /\ nloads' = m.nloads
        /\ ret' = [NoRet EXCEPT
                     !.op = "load_all_data",
                     !.err = m.err, !.calls = m.calls]
  /\ UNCHANGED <<name, config_file, subsources, registry, nupdates, threads>>

(* source.update_config(section, **kwargs) *)
UpdateConfig(section, kwargs) ==
  /\ LET r == update_config(config, section, kwargs)
     IN /\ config' = r.config
        /\ ret' = [NoRet EXCEPT
                     !.op = "update_config", !.section = section,
                     !.kwargs = kwargs, !.err = r.err]
  /\ nupdates' = IF config' # config THEN nupdates + 1 ELSE nupdates
  /\ nloads + nupdates' <= MaxOps
  /\ UNCHANGED <<name, config_file, _data, subsources, registry, nloads,
                 threads>>

(* source.copy_config(section, new_section) *)
CopyConfig(section, new_section) ==
  /\ LET r == copy_config(config, section, new_section)
     IN /\ config' = r.config
        /\ ret' = [NoRet EXCEPT
                     !.op = "copy_config", !.section = section,
                     !.sections = <<new_section>>, !.err = r.err]
  /\ nupdates' = IF config' # config THEN nupdates + 1 ELSE nupdates
  /\ nloads + nupdates' <= MaxOps
  /\ UNCHANGED <<name, config_file, _data, subsources, registry, nloads,
                 threads>>

(* source.write(filename): the file at the returned path then holds config *)
Write(filename) ==
  LET stored == StoreSubsources(config, subsources, DOMAIN subsources)
      w == Container_write(config_file, filename)
  IN /\ config' = stored
     /\ ret' = [NoRet EXCEPT
                  !.op = "write", !.file_name = filename, !.err = w.err,
                  !.value = IF w.err = OK THEN <<w.path>> ELSE <<>>]
     /\ UNCHANGED <<name, config_file, _data, subsources, registry,
                    nloads, nupdates, threads>>

(* container[section] = value *)
SetItem(section, value) ==
  /\ LET r == Container_setitem(_data, section, value, 1)
     IN /\ _data' = r.data
        /\ ret' = [NoRet EXCEPT
                     !.op = "setitem", !.section = section, !.err = r.err,
                     !.value = <<value>>]
  /\ UNCHANGED <<name, config_file, config, subsources, registry,
                 nloads, nupdates, threads>>

(* @register_class on a class named cls *)
RegisterClass(cls) ==
  /\ registry' = register_class(registry, cls)
  /\ ret' = [NoRet EXCEPT !.op = "register_class", !.section = cls]
  /\ UNCHANGED <<name, config_file, config, _data, subsources,
                 nloads, nupdates, threads>>

(* kwargs_from_config(source.config[section], base) *)
KwargsFromConfig(section, base) ==
  /\ section \in DOMAIN config.sect
  /\ LET r == kwargs_from_config(Proxy(config, section), base)
     IN ret' = [NoRet EXCEPT
                  !.op = "kwargs_from_config", !.section = section,
                  !.base = base, !.err = r.err,
                  !.value = IF r.err = OK THEN <<r.kw>> ELSE <<>>]
  /\ UNCHANGED <<name, config_file, config, _data, subsources, registry,
                 nloads, nupdates, threads>>

Next ==
  \/ \E section \in SectionNames, returns \in BOOLEAN :
       GetItem(section, returns)
  \/ \E section \in SectionNames, file_name \in FileNames,
        returns \in BOOLEAN :
       LoadData(section, file_name, returns)
  \/ \E keys \in KeysInputs, returns \in [1..2 -> BOOLEAN] :
       LoadDataFromKeys(keys[1], keys[2], returns)
  \/ LoadAllData
  \/ \E section \in UpdateSections, kwargs \in KwargsInputs :
       UpdateConfig(section, kwargs)
  \/ \E pair \in CopyInputs : CopyConfig(pair[1], pair[2])
  \/ \E filename \in WritePaths : Write(filename)
  \/ \E cls \in ClassNames : RegisterClass(cls)
  \/ \E section \in SectionNames, base \in Bases :
       KwargsFromConfig(section, base)
  \/ \E item \in SetItemInputs : SetItem(item[1], item[2])

Spec ==
  Init /\ [][Next]_vars

---------------------------------------------------------------------------
(* Construction in all its forms, the constructions that raise included, and
   the properties read from INFO. *)

(* Source(name, config_file, config) or Source.from_values(name, ...): ret
   records the call and whether it raised *)
InitSource ==
  \/ \E nm \in Names, mode \in {"file", "config", "neither"},
        isFile \in BOOLEAN, given \in SourceConfigs :
       LET c == Source_init(nm, mode, "in.cfg", isFile, given)
       IN Constructed(c, [NoRet EXCEPT
                            !.op = "Source", !.section = nm, !.base = mode,
                            !.err = c.err,
                            !.value = IF mode = "config" THEN <<given>>
                                      ELSE <<>>])
  \/ \E nm \in {"M1"}, kwargs \in ValuesInputs :
       LET c == from_values(nm, kwargs)
       IN Constructed(c, [NoRet EXCEPT
                            !.op = "from_values", !.section = nm,
                            !.base = "config", !.kwargs = kwargs,
                            !.err = c.err])

(* the construction returned an object *)
Built ==
  ~(ret.op \in {"Source", "from_values"} /\ ret.err # OK)

(* source.position, source.ra, source.dec, source.distance,
   source.luminosity, source.vlsr *)
Property(attr) ==
  /\ Built
  /\ LET r == Source_property(config, attr)
     IN ret' = [NoRet EXCEPT
                  !.op = "property", !.section = attr, !.err = r.err,
                  !.value = IF r.err = OK THEN <<r.value>> ELSE <<>>]
  /\ UNCHANGED <<name, config_file, config, _data, subsources, registry,
                 nloads, nupdates, threads>>

NextSource ==
  \/ \E attr \in Properties : Property(attr)
  \/ \E section \in {"INFO", "sub1", "new"}, kwargs \in KwargsInputs :
       Built /\ UpdateConfig(section, kwargs)
  \/ \E filename \in WritePaths : Built /\ Write(filename)

SpecSource ==
  InitSource /\ [][NextSource]_vars

---------------------------------------------------------------------------
(* Two threads that share the Source, each evaluating source[section] once.
   The interpreter may switch threads between the cache test, the return of
   the loader, the assignment to self._data[section] and the final read. *)

(* thread t enters __getitem__(section); alone records that the other
   thread is not inside a call at that moment *)
Call(t, section) ==
  /\ threads[t].pc = "idle"
  /\ threads' = [threads EXCEPT
                   ![t].pc = "check", ![t].section = section,
                   ![t].alone = \A o \in Threads \ {t} :
                                  threads[o].pc \in {"idle", "done"}]
  /\ UNCHANGED <<name, config_file, config, _data, subsources, registry,
                 nloads, nupdates, ret>>

(* `if section not in self._data` *)
Check(t) ==
  /\ threads[t].pc = "check"
  /\ threads' = [threads EXCEPT
                   ![t].pc = IF NotLoaded(_data, threads[t].section)
                             THEN "load" ELSE "return"]
  /\ UNCHANGED <<name, config_file, config, _data, subsources, registry,
                 nloads, nupdates, ret>>

(* Source.load_data(section) up to the return of load_data_by_type: the
   artifact is held by the thread, not yet assigned to the cache *)
Load(t, returns) ==
  /\ threads[t].pc = "load"
  /\ LET m == Source_load_data(Machine, threads[t].section, None, returns)
     IN /\ nloads' = m.nloads
        /\ threads' = [threads EXCEPT
                         ![t].pc = IF m.err = OK THEN "store" ELSE "done",
                         ![t].err = m.err,
                         ![t].calls = m.calls,
                         ![t].local = IF m.err = OK
                                      THEN m.data[threads[t].section]
                                      ELSE 0]
  /\ UNCHANGED <<name, config_file, config, _data, subsources, registry,
                 nupdates, ret>>

(* self._data[section] = <the artifact>, then Container.load_data, which
   without a file name changes nothing *)
Store(t) ==
  /\ threads[t].pc = "store"
  /\ _data' = StoreData(_data, threads[t].section, threads[t].local)
  /\ config' = Container_load_data(config, threads[t].section, None).config
  /\ threads' = [threads EXCEPT ![t].pc = "return"]
  /\ UNCHANGED <<name, config_file, subsources, registry, nloads, nupdates,
                 ret>>

(* `return self._data[section]` *)
Return(t) ==
  /\ threads[t].pc = "return"
  /\ threads' = [threads EXCEPT
                   ![t].pc = "done",
                   ![t].err = IF threads[t].section \in DOMAIN _data
                              THEN OK ELSE E_KeyError,
                   ![t].value = IF threads[t].section \in DOMAIN _data
                                THEN <<_data[threads[t].section]>>
                                ELSE <<>>]
  /\ UNCHANGED <<name, config_file, config, _data, subsources, registry,
                 nloads, nupdates, ret>>

NextThreads ==
  \E t \in Threads :
    \/ \E section \in {"cube", "bad"} : Call(t, section)
    \/ Check(t)
    \/ \E returns \in BOOLEAN : Load(t, returns)
    \/ Store(t)
    \/ Return(t)

SpecThreads ==
  Init /\ [][NextThreads]_vars

---------------------------------------------------------------------------
(* The registry on its own: registrations and resolutions of a tag. *)

(* load_data_by_type(file_name, dtype, REGISTERED_CLASSES) *)
LoadDataByType(file_name, dtype, returns) ==
  /\ LET r == load_data_by_type(file_name, dtype, registry, EmptyMap,
                                returns, nloads + 1)
     IN /\ nloads' = IF r.err = OK THEN nloads + 1 ELSE nloads
        /\ ret' = [NoRet EXCEPT
                     !.op = "load_data_by_type", !.section = dtype,
                     !.file_name = file_name, !.err = r.err,
                     !.calls = [i \in 1..Len(r.calls) |->
                                  [section |-> dtype, call |-> r.calls[i]]],
                     !.value = IF r.err = OK THEN <<r.value>> ELSE <<>>]
  /\ nloads' + nupdates <= MaxOps
  /\ UNCHANGED <<name, config_file, config, _data, subsources, registry,
                 nupdates, threads>>

NextRegistry ==
  \/ \E cls \in RegistryClassNames : RegisterClass(cls)
  \/ \E dtype \in TypeTags, returns \in BOOLEAN :
       LoadDataByType("a.fits", dtype, returns)

SpecRegistry ==
  Init /\ [][NextRegistry]_vars

---------------------------------------------------------------------------
(* SubSource objects on their own: to_dict, then from_dict of its result. *)

(* sub = SubSource(name, ...info), kept under its name *)
InitSub ==
  \E sub \in SubSourceInputs :
    Constructed([name |-> None, config_file |-> None, config |-> EmptyConfig,
                 subsources |-> (sub.name :> sub)], NoRet)

(* d = sub.to_dict() *)
ToDict(key) ==
  /\ ret.op = "init"
  /\ key \in DOMAIN subsources
  /\ ret' = [NoRet EXCEPT
               !.op = "to_dict", !.section = key,
               !.value = <<SubSource_to_dict(subsources[key])>>]
  /\ UNCHANGED <<name, config_file, config, _data, subsources, registry,
                 nloads, nupdates, threads>>

(* SubSource.from_dict(d) *)
FromDict ==
  /\ ret.op = "to_dict"
  /\ LET sub == SubSource_from_dict(ret.value[1], None)
     IN ret' = [NoRet EXCEPT
                  !.op = "from_dict", !.section = ret.section,
                  !.err = sub.err,
                  !.value = <<[name |-> sub.name, info |-> sub.info]>>]
  /\ UNCHANGED <<name, config_file, config, _data, subsources, registry,
                 nloads, nupdates, threads>>

NextSub ==
  \/ \E key \in {"s1", "core"} : ToDict(key)
  \/ FromDict

SpecSub ==
  InitSub /\ [][NextSub]_vars

---------------------------------------------------------------------------
(* Properties. *)

(* the section's `type`, lower-cased, is a key of the registry *)
RegisteredType(cfg, section) ==
  HasType(cfg, section)
    /\ Lower(Proxy(cfg, section)[K_type]) \in DOMAIN registry

(* the section has a `type` whose lower-cased tag is no key of the registry *)
UnknownType(cfg, section) ==
  HasType(cfg, section)
    /\ Lower(Proxy(cfg, section)[K_type]) \notin DOMAIN registry

(* the section has a `file` option (its own or inherited) *)
HasFile(cfg, section) ==
  HasSection(cfg, section) /\ K_file \in DOMAIN Proxy(cfg, section)

(* the errors Source.load_data raises *)
LoadErrors ==
  {E_MissingFile, E_KeyError, E_Coercion, E_UnknownType, E_Loader}

C1_Step ==
  /\ DOMAIN _data \subseteq DOMAIN _data'
  /\ ret'.op = "get" =>
       IF ret'.section \in DOMAIN _data
       THEN /\ ret'.err = OK
            /\ ret'.calls = <<>>
            /\ ret'.value = <<_data[ret'.section]>>
            /\ _data' = _data
       ELSE /\ Len(ret'.calls) <= 1
            /\ ret'.err = OK =>
                 /\ Len(ret'.calls) = 1
                 /\ ret'.calls[1].call.result # 0
                 /\ ret'.value = <<ret'.calls[1].call.result>>
                 /\ _data'[ret'.section] = ret'.calls[1].call.result

(* C1: a get of a cached section returns the cached artifact and invokes no
   loader, a get of an uncached section that succeeds invokes the loader
   once and caches what it returned, and no step removes a cache entry: so
   successive gets return the same artifact and the gets of a section make
   at most one loader invocation that returns. *)
C1_GetIdempotent ==
  [][C1_Step]_vars

(* C1 witness: a get answered from the cache, with no loader invocation *)
C1_Witness ==
  /\ ret.op = "get"
  /\ ret.err = OK
  /\ ret.calls = <<>>
  /\ ret.value = <<_data[ret.section]>>

C2_Step ==
  (/\ ret'.op = "load_data"
   /\ RegisteredType(config, ret'.section)
   /\ ret'.file_name # None \/ HasFile(config, ret'.section)
   /\ kwargs_from_config(Proxy(config, ret'.section), "loader").err = OK)
  => /\ Len(ret'.calls) = 1
     /\ ret'.calls[1].section = ret'.section
     /\ ret'.calls[1].call.loader
          = registry[Lower(Proxy(config, ret'.section)[K_type])]
     /\ ret'.calls[1].call.path
          = IF ret'.file_name # None THEN ExpandUser(ret'.file_name)
            ELSE ExpandUser(Proxy(config, ret'.section)[K_file])
     /\ ret'.calls[1].call.kwargs
          = kwargs_from_config(Proxy(config, ret'.section), "loader").kw
     /\ IF ret'.calls[1].call.result # 0
        THEN /\ ret'.err = OK
             /\ _data' = (ret'.section :> ret'.calls[1].call.result) @@ _data
        ELSE /\ ret'.err = E_Loader
             /\ _data' = _data

(* C2: load_data on a section whose lower-cased type is registered, with a
   path to resolve and loader_* options that coerce, invokes the loader
   registered under that tag exactly once, with the resolved path (the
   override if given, else the `file` option) and the kwargs built from the
   loader_* options, and caches what the loader returns under the section. *)
C2_Dispatch ==
  [][C2_Step]_vars

(* C2 witness: a load with an override that passed typed kwargs *)
C2_Witness ==
  /\ ret.op = "load_data"
  /\ ret.err = OK
  /\ ret.file_name # None
  /\ Len(ret.calls) = 1
  /\ DOMAIN ret.calls[1].call.kwargs # {}
  /\ _data[ret.section] = ret.calls[1].call.result

(* key is the `<option>_type` sibling of another option that begins with base *)
TypeSibling(proxy, key, base) ==
  /\ Len(key) > 1
  /\ key[Len(key)] = "type"
  /\ SubSeq(key, 1, Len(key) - 1) \in DOMAIN proxy
  /\ KeyStartsWith(key, base)

(* the options the claim gives an entry to *)
C3_Options(proxy, base) ==
  {key \in DOMAIN proxy :
     KeyStartsWith(key, base) /\ ~TypeSibling(proxy, key, base)}

(* C3: kwargs_from_config(section, 'loader') has exactly one entry for every
   option that begins with the prefix and is no `_type` sibling of another
   one, keyed by the option name without the prefix, holding the value
   coerced as the sibling names or the raw string when there is no sibling;
   a sibling naming anything but int, float, bool, quantity is not passed
   through. *)
C3_KwargsOriginal ==
  (ret.op = "kwargs_from_config" /\ ret.base = "loader") =>
    LET proxy == Proxy(config, ret.section)
        options == C3_Options(proxy, "loader")
    IN /\ (\E key \in options :
             /\ Append(key, "type") \in DOMAIN proxy
             /\ proxy[Append(key, "type")]
                  \notin {"int", "float", "bool", "quantity"})
          => ret.err # OK
       /\ ret.err = OK =>
            /\ DOMAIN ret.value[1] = {Tail(key) : key \in options}
            /\ \A key \in options :
                 ret.value[1][Tail(key)]
                   = IF Append(key, "type") \in DOMAIN proxy
                     THEN <<proxy[Append(key, "type")], proxy[key]>>
                     ELSE <<"str", proxy[key]>>

C4_OriginalStep ==
  (ret'.op = "load_data" /\ UnknownType(config, ret'.section))
  => /\ ret'.err = E_UnknownType
     /\ ret'.calls = <<>>
     /\ _data' = _data
     /\ config' = config

(* C4 as stated: load_data on a section whose type is not registered fails
   with the unknown-type error, with or without an override and whether or
   not the section has a `file` option, invokes no loader and leaves cache
   and config as they were. *)
C4_UnknownTypeOriginal ==
  [][C4_OriginalStep]_vars

C4_Step ==
  (ret'.op = "load_data" /\ UnknownType(config, ret'.section))
  => /\ ret'.err =
          IF ret'.file_name = None /\ ~HasFile(config, ret'.section)
          THEN E_MissingFile
          ELSE IF kwargs_from_config(Proxy(config, ret'.section),
                                     "loader").err # OK
          THEN E_Coercion
          ELSE E_UnknownType
     /\ ret'.calls = <<>>
     /\ _data' = _data
     /\ config' = config

(* C4 amended: load_data on a section whose type is not registered fails,
   invokes no loader and leaves cache and config as they were; the failure
   is the unknown-type error when a path resolves (override or `file`
   option) and the loader_* options coerce, the missing-file error when no
   path resolves, and the coercion error when a path resolves and a
   loader_* option does not coerce. *)
C4_UnknownType ==
  [][C4_Step]_vars

(* C4 witness: an unknown-type failure of a load with an override, on a
   Source that holds a cached artifact *)
C4_Witness ==
  /\ ret.op = "load_data"
  /\ ret.err = E_UnknownType
  /\ ret.file_name # None
  /\ DOMAIN _data # {}

C5_Step ==
  (/\ ret'.op = "load_data"
   /\ ret'.file_name = None
   /\ HasSection(config, ret'.section)
   /\ ~HasFile(config, ret'.section))
  => /\ ret'.err = E_MissingFile
     /\ ret'.calls = <<>>
     /\ _data' = _data
     /\ config' = config

(* C5: load_data without an override on a section that has no `file` option
   fails with the missing-file ValueError, before any registry lookup or
   loader call, and leaves cache and config unchanged. *)
C5_MissingFile ==
  [][C5_Step]_vars

(* C5 witness: the missing-file failure on a section whose type the registry
   does not know: the registry was not consulted first *)
C5_Witness ==
  /\ ret.op = "load_data"
  /\ ret.file_name = None
  /\ ret.err = E_MissingFile
  /\ UnknownType(config, ret.section)

(* C6 as stated: every cache key is a section of the config, and get or
   load_data of a section absent from the config fails with the
   section-not-found error and adds no cache entry. *)
C6_CacheInConfigOriginal ==
  /\ DOMAIN _data \subseteq DOMAIN config.sect
  /\ (ret.op \in {"get", "load_data"} /\ ~HasSection(config, ret.section))
     => /\ ret.err = E_KeyError
        /\ ret.calls = <<>>

(* C6 amended: every cache key is a section of the config, and get or
   load_data of a section absent from the config fails and adds no cache
   entry: with the missing-file ValueError when no override is given (so
   always for get), with the KeyError of the section lookup when one is. *)
C6_CacheInConfig ==
  /\ DOMAIN _data \subseteq DOMAIN config.sect
  /\ (ret.op \in {"get", "load_data"} /\ ~HasSection(config, ret.section))
     => /\ ret.err = IF ret.file_name = None THEN E_MissingFile
                     ELSE E_KeyError
        /\ ret.calls = <<>>

(* C6 witness: a get of an absent section failed on a Source with a cached
   artifact *)
C6_Witness ==
  /\ ret.op = "get"
  /\ ~HasSection(config, ret.section)
  /\ ret.err = E_MissingFile
  /\ DOMAIN _data # {}

(* C7: after a load_data that returned (directly, via get or via
   load_data_from_keys) the section is in the config and its `file` option
   names the path the loader was given; and load_data_from_keys, unless a
   load fails for the section's type or options or in the loader, leaves
   every given section in the config (inserted if it was absent) with its
   given file name. *)
C7_FileRecordedOriginal ==
  /\ \A i \in 1..Len(ret.calls) :
       ret.calls[i].call.result # 0 =>
         /\ HasFile(config, ret.calls[i].section)
         /\ ExpandUser(Proxy(config, ret.calls[i].section)[K_file])
              = ret.calls[i].call.path
  /\ (/\ ret.op = "load_data_from_keys"
      /\ ret.err \notin {E_MissingFile, E_Coercion, E_UnknownType, E_Loader})
     => \A i \in 1..Len(ret.sections) :
          i <= Len(ret.file_names) =>
            /\ HasFile(config, ret.sections[i])
            /\ Proxy(config, ret.sections[i])[K_file] = ret.file_names[i]

C8_OriginalStep ==
  ret'.op = "update_config" =>
    /\ ret'.err = OK
    /\ DOMAIN config'.sect = DOMAIN config.sect \cup {ret'.section}
    /\ \A s \in DOMAIN config.sect \ {ret'.section} :
         config'.sect[s] = config.sect[s]
    /\ config'.defaults = config.defaults
    /\ \A key \in DOMAIN ret'.kwargs :
         config'.sect[ret'.section][key] = Str(ret'.kwargs[key])
    /\ DOMAIN config'.sect[ret'.section]
         = DOMAIN ret'.kwargs
             \cup (IF ret'.section \in DOMAIN config.sect
                   THEN DOMAIN config.sect[ret'.section] ELSE {})
    /\ ret'.section \in DOMAIN config.sect =>
         \A key \in DOMAIN config.sect[ret'.section] \ DOMAIN ret'.kwargs :
           config'.sect[ret'.section][key] = config.sect[ret'.section][key]
    /\ _data' = _data

(* C8: update_config completes for every section and options: an absent
   section is created holding exactly the given options as strings, a
   present one gets each given option set to the string of its value and
   keeps the others; no other section and no cache entry changes. *)
C8_UpdateConfigOriginal ==
  [][C8_OriginalStep]_vars

(* C9: write() without a path fails with the no-config-path ValueError
   exactly when no default path was remembered at construction and otherwise
   writes to the remembered path; write(path) writes to path. *)
C9_WriteOriginal ==
  ret.op = "write" =>
    IF ret.file_name # None
    THEN ret.err = OK /\ ret.value = <<ret.file_name>>
    ELSE IF config_file \in {None, Unset}
    THEN ret.err = E_NoConfigPath
    ELSE ret.err = OK /\ ret.value = <<config_file>>

(* the sections load_all_data is to load: all but INFO and the subsources *)
C10_Loadable(cfg) ==
  {s \in DOMAIN cfg.sect :
     /\ s # "INFO"
     /\ ~(K_type \in DOMAIN Proxy(cfg, s)
          /\ Proxy(cfg, s)[K_type] = "subsource")}

(* C10: load_all_data calls load_data on every section other than INFO and
   the subsources: it ends without error with all of them cached, or with
   the error of the load_data that failed. *)
C10_LoadAllOriginal ==
  ret.op = "load_all_data" =>
    /\ ret.err \in LoadErrors \cup {OK}
    /\ ret.err = OK => C10_Loadable(config) \subseteq DOMAIN _data

(* the info holds a position or a quantity *)
C11_Typed(info) ==
  \E k \in DOMAIN info : info[k][1] \in {"SkyCoord", "Quantity"}

(* C11: for a SubSource whose info holds a position and/or quantities under
   any keys, plus plain strings, from_dict(sub.to_dict()) returns a SubSource
   with the same name and an equal info: the same keys, positions again
   positions and quantities again quantities. *)
C11_RoundTripOriginal ==
  (ret.op = "from_dict" /\ C11_Typed(subsources[ret.section].info)) =>
    /\ ret.err = OK
    /\ ret.value[1].name = subsources[ret.section].name
    /\ ret.value[1].info = subsources[ret.section].info

C12_Step ==
  /\ DOMAIN registry \subseteq DOMAIN registry'
  /\ \A tag \in DOMAIN registry' : Lower(tag) = tag
  /\ IF ret'.op = "register_class"
     THEN /\ DOMAIN registry' = DOMAIN registry \cup {Lower(ret'.section)}
          /\ registry'[Lower(ret'.section)] = ret'.section
          /\ \A tag \in DOMAIN registry \ {Lower(ret'.section)} :
               registry'[tag] = registry[tag]
     ELSE registry' = registry
  /\ ret'.op = "load_data_by_type" =>
       IF ret'.section \in DOMAIN registry
       THEN /\ Len(ret'.calls) = 1
            /\ ret'.calls[1].call.loader = registry[ret'.section]
       ELSE /\ ret'.err = E_UnknownType
            /\ ret'.calls = <<>>

(* C12: the registry starts with lower-case keys; a registration puts the
   class under its lower-cased name, replacing what the tag held, and leaves
   every other entry; nothing else changes the registry, so every key stays
   lower-case, holds its most recent registration and is never removed; and
   resolving a tag calls the loader the tag holds, or fails with the
   unknown-type error, calling nothing, when the tag is no key. *)
C12_Registry ==
  /\ \A tag \in DOMAIN registry : Lower(tag) = tag
  /\ [][C12_Step]_vars

(* C12 witness: a tag resolved to the class registered last under it, after
   another tag was added *)
C12_Witness ==
  /\ ret.op = "load_data_by_type"
  /\ ret.section = "fits_file"
  /\ Len(ret.calls) = 1
  /\ ret.err = OK
  /\ ret.calls[1].call.loader = "FITS_FILE"
  /\ "image" \in DOMAIN registry

(* the sections whose type, their own or inherited, is 'subsource' *)
C13_Typed(cfg) ==
  {s \in AllSections(cfg) :
     K_type \in DOMAIN Proxy(cfg, s) /\ Proxy(cfg, s)[K_type] = "subsource"}

(* C13: constructing a Source from any config, with or without a name in
   the default section and with or without an explicit name, completes and
   leaves in subsources one SubSource per section typed 'subsource', under
   the section's name, and nothing else; update_config never changes
   subsources. *)
C13_SubsourcesOriginal ==
  /\ ret.err = OK /\ DOMAIN subsources = C13_Typed(config)
  /\ [][ret'.op = "update_config" => subsources' = subsources]_vars

(* the options of INFO a property projects *)
C14_Projects(attr) ==
  CASE attr = "position" -> {K_ra, K_dec}
    [] attr = "ra" -> {K_ra}
    [] attr = "dec" -> {K_dec}
    [] attr = "distance" -> {K_distance}
    [] attr = "luminosity" -> {K_luminosity}
    [] attr = "vlsr" -> {K_vlsr}

C14_OriginalStep ==
  ret'.op = "property" =>
    /\ ("INFO" \notin DOMAIN config.sect
          \/ \E opt \in C14_Projects(ret'.section) :
               opt \notin DOMAIN Proxy(config, "INFO"))
       => ret'.err = OK /\ ret'.value = <<None>>
    /\ config' = config
    /\ _data' = _data
    /\ subsources' = subsources

(* C14: each of position, ra, dec, distance, luminosity, vlsr returns None,
   without raising, when an option it projects is missing from INFO or INFO
   itself is missing, and none of them changes the config, the cache or the
   subsources. *)
C14_AccessorsOriginal ==
  [][C14_OriginalStep]_vars

(* the name a construction is given: the explicit one, else the one in the
   default section of the parser given, else none *)
C18_Supplied ==
  IF ret.section # None THEN ret.section
  ELSE IF ret.value # <<>> /\ K_name \in DOMAIN ret.value[1].defaults
  THEN ret.value[1].defaults[K_name]
  ELSE None

(* C18: after a construction without a config file that is given a name
   (explicitly, in the default section of the parser, or through
   from_values), the instance's name is that name and its config_file is
   '<name>.cfg' of that name. *)
C18_NameAndPathOriginal ==
  (/\ ret.op \in {"Source", "from_values"}
   /\ ret.err = OK
   /\ ret.base # "file"
   /\ C18_Supplied # None)
  => /\ name = C18_Supplied
     /\ config_file = CfgPath(C18_Supplied)

(* the artifacts the loader calls of the two threads returned *)
C15_Artifacts ==
  UNION {{threads[t].calls[i].call.result :
            i \in 1..Len(threads[t].calls)} : t \in Threads}

(* how many times the two threads invoked a loader *)
C15_Invocations ==
  Len(threads[1].calls) + Len(threads[2].calls)

(* both threads asked for the same section and both calls returned *)
C15_BothReturned ==
  /\ \A t \in Threads : threads[t].pc = "done" /\ threads[t].err = OK
  /\ threads[1].section = threads[2].section

(* C15: when two threads get the same uncached section and both calls
   return, the cache ends with one artifact for the section, returned by one
   of their loader calls, and each thread is handed such an artifact; the
   loader was invoked once or twice, and once when neither thread entered
   while the other was inside its call.  (That the loader can be invoked
   twice is the witness below.) *)
C15_Race ==
  C15_BothReturned =>
    /\ threads[1].section \in DOMAIN _data
    /\ _data[threads[1].section] \in C15_Artifacts
    /\ 0 \notin C15_Artifacts
    /\ \A t \in Threads : threads[t].value[1] \in C15_Artifacts
    /\ C15_Invocations \in {1, 2}
    /\ (\A t \in Threads : threads[t].alone) => C15_Invocations = 1

(* C15 witness: both threads passed the cache test before either stored, and
   the loader was invoked twice for the section *)
C15_Witness ==
  /\ C15_BothReturned
  /\ C15_Invocations = 2
  /\ \E t \in Threads : ~threads[t].alone

C17_OriginalStep ==
  /\ ret'.op = "setitem" =>
       /\ ret'.err = OK
       /\ ret'.section \in DOMAIN _data'
       /\ _data'[ret'.section] = ret'.value[1]
  /\ (ret.op = "setitem" /\ ret'.op = "get" /\ ret'.section = ret.section)
     => /\ ret'.err = OK
        /\ ret'.value = ret.value
        /\ ret'.calls = <<>>

(* C17: container[section] = value returns and leaves the cache mapping
   section to value, and the get of that section that follows returns value
   and invokes no loader. *)
C17_SetItemOriginal ==
  [][C17_OriginalStep]_vars

C16_Step ==
  \A section \in DOMAIN _data :
    /\ section \in DOMAIN _data'
    /\ _data'[section] # _data[section] =>
         /\ ret'.op \in {"load_data", "load_data_from_keys", "load_all_data"}
         /\ \E i \in 1..Len(ret'.calls) :
              /\ ret'.calls[i].section = section
              /\ ret'.calls[i].call.result = _data'[section]
              /\ ret'.calls[i].call.result # 0

(* C16: a cached section stays cached, with the same artifact, through
   every step (a get of any section, update_config, copy_config, write, an
   item assignment, a load that fails, a load of another section) except a
   load_data, load_data_from_keys or load_all_data whose loader call for
   that very section returned, and then it holds what that call returned. *)
C16_CachePersists ==
  [][C16_Step]_vars

(* C16 witness: a cached section whose `file` and `type` options were just
   changed by update_config *)
C16_Witness ==
  /\ ret.op = "update_config"
  /\ ret.err = OK
  /\ ret.section \in DOMAIN _data
  /\ {K_file, K_type} \subseteq DOMAIN ret.kwargs
  /\ Proxy(config, ret.section)[K_type] = "Fits_File"

====
